---- MODULE Spec2Model ----
(***************************************************************************)
(* Model of main.py: the command runner (run_cmd), the configuration mode  *)
(* store (read_config_mode / write_config_mode / sh_escape), the device    *)
(* information collector (get_device_info) and the HTTP handlers get_mode, *)
(* set_mode and device_info.                                               *)
(*                                                                         *)
(* Text is a sequence of tokens.  A token is one character (space,         *)
(* newline, backslash, the letter n, the single quote) or an opaque run    *)
(* of characters that holds none of these ("mode=", "otomatis", "statis",  *)
(* "foo", ...).  Quote characters never occur inside file content here.    *)
(***************************************************************************)
EXTENDS Integers, Sequences, FiniteSets, TLC

VARIABLES file, file0, req, lastPersist, lastGet, rc, dev

vars == <<file, file0, req, lastPersist, lastGet, rc, dev>>

-----------------------------------------------------------------------------
(* Bounds *)

MaxLines == 3
MaxReturnCode == 2

-----------------------------------------------------------------------------
(* Tokens *)

MODE_EQ == "mode="
OTOMATIS == "otomatis"
STATIS == "statis"
FOO == "foo"
SP == " "
NL == "\n"
BS == "\\"
LETTER_N == "n"
QUOTE == "'"

\* Optional[str]
None == [some |-> FALSE, val |-> <<>>]
Some(v) == [some |-> TRUE, val |-> v]

\* `x or None` for a string x
OrNone(s) == IF s = <<>> THEN None ELSE Some(s)

-----------------------------------------------------------------------------
(* Python string methods *)

IsSpace(c) == c \in {SP, NL}

RECURSIVE lstrip(_)
lstrip(s) ==
    IF s = <<>> THEN s
    ELSE IF IsSpace(Head(s)) THEN lstrip(Tail(s)) ELSE s

RECURSIVE rstrip(_)
rstrip(s) ==
    IF s = <<>> THEN s
    ELSE IF IsSpace(s[Len(s)]) THEN rstrip(SubSeq(s, 1, Len(s) - 1)) ELSE s

strip(s) == rstrip(lstrip(s))

\* str.lower() of one token
lower_char(c) ==
    CASE c = "OTOMATIS" -> OTOMATIS
      [] c = "Statis" -> STATIS
      [] OTHER -> c

lower(s) == [i \in 1..Len(s) |-> lower_char(s[i])]

\* str.splitlines(): a trailing newline opens no further line
RECURSIVE splitlines_from(_, _, _)
splitlines_from(s, cur, acc) ==
    IF s = <<>> THEN (IF cur = <<>> THEN acc ELSE Append(acc, cur))
    ELSE IF Head(s) = NL THEN splitlines_from(Tail(s), <<>>, Append(acc, cur))
    ELSE splitlines_from(Tail(s), Append(cur, Head(s)), acc)

splitlines(s) == splitlines_from(s, <<>>, <<>>)

\* "\n".join(lines)
RECURSIVE join_nl(_)
join_nl(lines) ==
    IF lines = <<>> THEN <<>>
    ELSE IF Len(lines) = 1 THEN lines[1]
    ELSE lines[1] \o <<NL>> \o join_nl(Tail(lines))

\* line.startswith("mode=")
startswith_mode(line) == line # <<>> /\ Head(line) = MODE_EQ

\* line.split("=", 1)[1] of a line that starts with "mode="
after_eq(line) == Tail(line)

\* repr() of one character of a str
repr_char(c) ==
    CASE c = NL -> <<BS, LETTER_N>>
      [] c = BS -> <<BS, BS>>
      [] OTHER -> <<c>>

RECURSIVE repr_body(_)
repr_body(s) ==
    IF s = <<>> THEN <<>> ELSE repr_char(Head(s)) \o repr_body(Tail(s))

\* repr(s): single-quoted, newline and backslash escaped
repr(s) == <<QUOTE>> \o repr_body(s) \o <<QUOTE>>

-----------------------------------------------------------------------------
(* run_cmd *)

Strategies == {"su", "sh"}

try_cmds(use_su) == (IF use_su THEN <<"su">> ELSE <<>>) \o <<"sh">>

\* One attempt: subprocess.run either completes with a return code and
\* captured output, or raises FileNotFoundError, or raises something else
\* (TimeoutExpired after the 5 s timeout, ...).
Completed(code, out, err) ==
    [kind |-> "completed", returncode |-> code, stdout |-> out, stderr |-> err]
Raised(exc) ==
    [kind |-> exc, returncode |-> 0 - 1, stdout |-> <<>>, stderr |-> <<>>]

Failures == {Completed(1, <<>>, <<>>), Raised("FileNotFoundError")}

CommandFailed == <<"Command failed">>

\* run_loop taking any completed process, whatever its return code
RECURSIVE run_loop_any_code(_, _, _)
run_loop_any_code(cmds, oc, tried) ==
    IF cmds = <<>>
    THEN [stdout |-> <<>>, stderr |-> Some(CommandFailed), code |-> 1,
          tried |-> tried, by |-> "none"]
    ELSE LET c == Head(cmds)
             proc == oc[c]
         IN IF proc.kind = "completed"
            THEN [stdout |-> strip(proc.stdout),
                  stderr |-> OrNone(strip(proc.stderr)),
                  code |-> proc.returncode,
                  tried |-> Append(tried, c), by |-> c]
            ELSE run_loop_any_code(Tail(cmds), oc, Append(tried, c))

RECURSIVE run_loop(_, _, _)
run_loop(cmds, oc, tried) ==
    IF cmds = <<>>
    THEN [stdout |-> <<>>, stderr |-> Some(CommandFailed), code |-> 1,
          tried |-> tried, by |-> "none"]
    ELSE LET c == Head(cmds)
             proc == oc[c]
         IN IF proc.kind = "completed" /\ proc.returncode = 0
            THEN [stdout |-> strip(proc.stdout),
                  stderr |-> OrNone(strip(proc.stderr)),
                  code |-> proc.returncode,
                  tried |-> Append(tried, c), by |-> c]
            ELSE run_loop(Tail(cmds), oc, Append(tried, c))

\* run_cmd(cmd, use_su) where oc[c] is what the attempt with strategy c
\* does if it is made.  tried / by record the attempts made and the one
\* whose output was returned.
run_cmd(use_su, oc) == run_loop(try_cmds(use_su), oc, <<>>)

-----------------------------------------------------------------------------
(* Configuration mode store *)

ValidModes == {<<OTOMATIS>>, <<STATIS>>}
Unknown == <<"unknown">>

\* scan_mode without the break: the last "mode=" line decides
RECURSIVE scan_mode_no_break(_)
scan_mode_no_break(lines) ==
    IF lines = <<>> THEN None
    ELSE LET line == strip(lines[Len(lines)])
         IN IF startswith_mode(line)
            THEN Some(strip(after_eq(line)))
            ELSE scan_mode_no_break(SubSeq(lines, 1, Len(lines) - 1))

\* read_config_mode, the scan of the lines of `out`: the first line that,
\* trimmed, starts with "mode=" decides
RECURSIVE scan_mode(_)
scan_mode(lines) ==
    IF lines = <<>> THEN None
    ELSE LET line == strip(Head(lines))
         IN IF startswith_mode(line)
            THEN Some(strip(after_eq(line)))
            ELSE scan_mode(Tail(lines))

\* read_config_mode, given the result r of run_cmd("cat CONFIG_PATH")
read_config_mode(r) ==
    IF r.code # 0 \/ r.stdout = <<>> THEN None
    ELSE scan_mode(splitlines(r.stdout))

\* get_mode: the "mode" field of the response
mode_status(mode) ==
    IF mode.some /\ mode.val \in ValidModes THEN mode.val ELSE Unknown

\* f"mode={new_mode}"
mode_line(new_mode) == <<MODE_EQ>> \o new_mode

\* write_config_mode, the loop over the lines read
new_lines_of(lines, new_mode) ==
    [i \in 1..Len(lines) |->
        IF startswith_mode(strip(lines[i])) THEN mode_line(new_mode) ELSE lines[i]]

updated_of(lines) ==
    \E i \in 1..Len(lines) : startswith_mode(strip(lines[i]))

\* write_config_mode, the content assembled from the result r of the cat
new_content(r, new_mode) ==
    IF r.code = 0 /\ r.stdout # <<>>
    THEN LET lines == splitlines(r.stdout)
             new_lines == IF updated_of(lines)
                          THEN new_lines_of(lines, new_mode)
                          ELSE Append(new_lines_of(lines, new_mode), mode_line(new_mode))
         IN join_nl(new_lines) \o <<NL>>
    ELSE mode_line(new_mode) \o <<NL>>

sh_escape(s) == repr(s)

\* The shell reading the word 'text': the text between the single quotes,
\* taken literally.
sh_word(w) == SubSeq(w, 2, Len(w) - 1)

\* printf '%s' arg writes arg as it is: no escape of arg is interpreted
printf_s(arg) == arg

\* what `printf '%s' <sh_escape(content)> > CONFIG_PATH` leaves in the file
echo_cmd_output(content) == printf_s(sh_word(sh_escape(content)))

\* set_mode: payload.mode.lower().strip()
normalize(s) == strip(lower(s))

\* is_mode testing only that a mode was given
is_mode_nonempty(mode) == mode # <<>>

\* set_mode: mode in {"otomatis", "statis"}
is_mode(mode) == mode \in ValidModes

\* write_config_mode: new_mode in {"otomatis", "statis"}
write_accepts(new_mode) == new_mode \in ValidModes

-----------------------------------------------------------------------------
(* Device information collector *)

TidakTersedia == <<"Tidak tersedia">>

Fields == {"model", "board", "brand", "android", "kernel", "cpu", "ram"}
PropFields == {"model", "board", "brand", "android", "cpu"}

\* the property and the environment variable behind each field
PropOf ==
    [model |-> "ro.product.model", board |-> "ro.product.board",
     brand |-> "ro.product.manufacturer", android |-> "ro.build.version.release",
     cpu |-> "ro.hardware"]

EnvOf ==
    [model |-> "DEVICE_MODEL", board |-> "DEVICE_BOARD", brand |-> "DEVICE_BRAND",
     android |-> "DEVICE_ANDROID", cpu |-> "DEVICE_CPU"]

\* The device d: whether su can be run, whether a getprop binary is
\* installed, the properties that have a value, the environment variables
\* that are set, what uname and the free pipeline do, and /proc/meminfo.

\* an attempt of a command that prints `out` when the shell finds its binary
AttemptOf(d, c, found, out) ==
    IF c = "su" /\ ~d.su THEN Raised("FileNotFoundError")
    ELSE IF found THEN Completed(0, out, <<>>)
    ELSE Completed(1, <<>>, <<>>)

\* `which getprop`
which_outcomes(d) ==
    [c \in Strategies |-> AttemptOf(d, c, d.has_getprop, <<"/system/bin/getprop", NL>>)]

\* `getprop <prop>`: an empty line for a property without a value
getprop_outcomes(d, prop) ==
    [c \in Strategies |->
        AttemptOf(d, c, d.has_getprop,
                  IF prop \in d.props THEN <<"value of ", prop, NL>> ELSE <<NL>>)]

\* `uname -r`
uname_outcomes(d) ==
    [c \in Strategies |-> AttemptOf(d, c, d.uname, <<"5.10.0", NL>>)]

\* `free | grep Mem | awk '{print $2}'`: the exit code is awk's, so a
\* missing free gives exit code 0 and no output
free_outcomes(d) ==
    [c \in Strategies |->
        AttemptOf(d, c, d.free # "fails",
                  IF d.free = "prints" THEN <<"8000000", NL>> ELSE <<>>)]

detect_binary(d) ==
    LET r == run_cmd(TRUE, which_outcomes(d))
    IN r.code = 0 /\ r.stdout # <<>>

getprop(d, prop) ==
    IF detect_binary(d)
    THEN LET r == run_cmd(TRUE, getprop_outcomes(d, prop))
         IN IF r.code = 0 /\ r.stdout # <<>> THEN Some(r.stdout) ELSE None
    ELSE None

\* os.getenv with a default for the unset variable
getenv_with_default(d, name) ==
    IF name \in d.envs THEN Some(<<"value of ", name>>) ELSE Some(<<"unknown">>)

\* os.getenv(name)
getenv(d, name) ==
    IF name \in d.envs THEN Some(<<"value of ", name>>) ELSE None

\* a or b or "Tidak tersedia"
or_else(a, b) ==
    IF a.some /\ a.val # <<>> THEN a.val
    ELSE IF b.some /\ b.val # <<>> THEN b.val
    ELSE TidakTersedia

\* the scan of /proc/meminfo, a sequence of lines split into words: the
\* second word of the first MemTotal: line; a line without a second word
\* raises IndexError, which ends the scan without a value
RECURSIVE scan_meminfo(_)
scan_meminfo(lines) ==
    IF lines = <<>> THEN None
    ELSE IF Head(lines) # <<>> /\ Head(Head(lines)) = "MemTotal:"
    THEN (IF Len(Head(lines)) >= 2 THEN Some(<<Head(lines)[2]>>) ELSE None)
    ELSE scan_meminfo(Tail(lines))

\* get_device_info, the total RAM in kB
ram_kb(d) ==
    LET r == run_cmd(FALSE, free_outcomes(d))
    IN IF r.code = 0 /\ r.stdout # <<>> THEN Some(strip(r.stdout))
       ELSE IF d.meminfo.some THEN scan_meminfo(d.meminfo.val)
       ELSE None

get_device_info(d) ==
    LET prop(f) == or_else(getprop(d, PropOf[f]), getenv(d, EnvOf[f]))
        kernel_out == run_cmd(FALSE, uname_outcomes(d)).stdout
        kb == ram_kb(d)
    IN [model |-> prop("model"),
        board |-> prop("board"),
        brand |-> prop("brand"),
        android |-> prop("android"),
        kernel |-> IF kernel_out # <<>> THEN kernel_out ELSE TidakTersedia,
        cpu |-> prop("cpu"),
        ram |-> IF kb.some /\ kb.val # <<>> THEN kb.val \o <<" kB">> ELSE TidakTersedia]

PrettyOrder == <<"model", "board", "brand", "android", "kernel", "cpu", "ram">>

\* GET /api/device: the response
device_info_response(d) ==
    LET info == get_device_info(d)
    IN [status |-> 200, info |-> info,
        pretty |-> [i \in 1..7 |-> <<"* ", PrettyOrder[i], " : ">> \o info[PrettyOrder[i]]]]

-----------------------------------------------------------------------------
(* States before any call *)

NoOutcome == [c \in Strategies |-> Raised("FileNotFoundError")]

NoResult == [stdout |-> <<>>, stderr |-> None, code |-> 0, tried |-> <<>>, by |-> "none"]

NoCall == [called |-> FALSE, use_su |-> FALSE, oc |-> NoOutcome, result |-> NoResult]

NoGet == [called |-> FALSE, code |-> 1, mode |-> <<>>, seen |-> <<>>]

IdleReq == [pc |-> "idle", payload |-> <<>>, mode |-> <<>>, read_ok |-> FALSE,
            seen |-> <<>>, content |-> <<>>, after |-> <<>>, status |-> 0,
            echo |-> <<>>, ncmds |-> 0]

NoResponse == [status |-> 0, info |-> [f \in Fields |-> <<>>],
               pretty |-> [i \in 1..7 |-> <<>>]]

NoDev == [called |-> FALSE, su |-> FALSE, has_getprop |-> FALSE, props |-> {},
          envs |-> {}, uname |-> FALSE, free |-> "fails", meminfo |-> None,
          response |-> NoResponse]

\* the two requests POST /api/mode that may overlap
Writers == {1, 2}

-----------------------------------------------------------------------------
(* Specification of the command runner alone *)

RawOuts == {<<>>, <<FOO>>, <<SP, FOO, NL>>, <<NL>>}
RawErrs == {<<>>, <<SP, "err">>}

Attempts ==
    {Completed(c, o, e) : c \in 0..MaxReturnCode, o \in RawOuts, e \in RawErrs}
    \cup {Raised("FileNotFoundError"), Raised("TimeoutExpired")}

InitRun ==
    /\ file = <<>> /\ file0 = <<>>
    /\ req = [w \in Writers |-> IdleReq]
    /\ lastPersist = 0
    /\ lastGet = NoGet
    /\ \E use_su \in BOOLEAN, oc \in [Strategies -> Attempts] :
          rc = [NoCall EXCEPT !.use_su = use_su, !.oc = oc]
    /\ dev = NoDev

RunCmd ==
    /\ ~rc.called
    /\ rc' = [rc EXCEPT !.called = TRUE, !.result = run_cmd(rc.use_su, rc.oc)]
    /\ UNCHANGED <<file, file0, req, lastPersist, lastGet, dev>>

NextRun == RunCmd

SpecRun == InitRun /\ [][NextRun]_vars

-----------------------------------------------------------------------------
(* Specification of the mode endpoints over the configuration file *)

LineTypes == {<<FOO>>, <<MODE_EQ, OTOMATIS>>, <<SP, MODE_EQ, STATIS, SP>>}

FileOf(lines) == IF lines = <<>> THEN <<>> ELSE join_nl(lines) \o <<NL>>

InitFiles ==
    {FileOf(ls) : ls \in UNION {[1..n -> LineTypes] : n \in 0..MaxLines}}

Payloads == {<<SP, "OTOMATIS", SP>>, <<STATIS>>, <<"fast">>}

\* the attempts of `cat CONFIG_PATH`: one that works prints the file
CatOutcomes(f) == [Strategies -> {Completed(0, f, <<>>)} \cup Failures]

\* the attempts of the redirect: one that works prints nothing
WriteOutcomes == [Strategies -> {Completed(0, <<>>, <<>>)} \cup Failures]

Init ==
    /\ file0 \in InitFiles
    /\ file = file0
    /\ req = [w \in Writers |-> IdleReq]
    /\ lastPersist = 0
    /\ lastGet = NoGet
    /\ rc = NoCall
    /\ dev = NoDev

\* GET /api/mode
get_mode(oc) ==
    LET r == run_cmd(TRUE, oc)
    IN /\ lastGet' = [called |-> TRUE, code |-> r.code,
                      mode |-> mode_status(read_config_mode(r)), seen |-> file]
       /\ UNCHANGED <<file, file0, req, lastPersist, rc, dev>>

\* POST /api/mode up to and including the cat of write_config_mode.
\* The requests are numbered in the order they arrive.
set_mode_begin(w, payload, oc) ==
    /\ req[w].pc = "idle"
    /\ \A v \in Writers : v < w => req[v].pc # "idle"
    /\ LET mode == normalize(payload)
           r == run_cmd(TRUE, oc)
       IN req' = [req EXCEPT ![w] =
             IF ~is_mode(mode)
             THEN [IdleReq EXCEPT !.pc = "done", !.payload = payload,
                                  !.mode = mode, !.status = 400]
             ELSE IF ~write_accepts(mode)
             THEN [IdleReq EXCEPT !.pc = "done", !.payload = payload,
                                  !.mode = mode, !.status = 500]
             ELSE [IdleReq EXCEPT !.pc = "persist", !.payload = payload,
                                  !.mode = mode,
                                  !.read_ok = (r.code = 0 /\ r.stdout # <<>>),
                                  !.seen = file,
                                  !.content = new_content(r, mode),
                                  !.ncmds = 1]]
    /\ UNCHANGED <<file, file0, lastPersist, lastGet, rc, dev>>

\* POST /api/mode from the redirect of write_config_mode to the response
set_mode_persist(w, oc) ==
    /\ req[w].pc = "persist"
    /\ LET r == run_cmd(TRUE, oc)
           success == r.code = 0
       IN /\ file' = IF success THEN echo_cmd_output(req[w].content) ELSE file
          /\ lastPersist' = IF success THEN w ELSE lastPersist
          /\ req' = [req EXCEPT ![w].pc = "done",
                                ![w].after = file',
                                ![w].status = IF success THEN 200 ELSE 500,
                                ![w].echo = IF success THEN req[w].mode ELSE <<>>,
                                ![w].ncmds = 2]
    /\ UNCHANGED <<file0, lastGet, rc, dev>>

Next ==
    \/ \E oc \in CatOutcomes(file) : get_mode(oc)
    \/ \E w \in Writers, payload \in Payloads, oc \in CatOutcomes(file) :
          set_mode_begin(w, payload, oc)
    \/ \E w \in Writers, oc \in WriteOutcomes : set_mode_persist(w, oc)

Spec == Init /\ [][Next]_vars

-----------------------------------------------------------------------------
(* Vocabulary of the properties *)

ModeNames == {<<"otomatis">>, <<"statis">>}

\* a line that, leading and trailing whitespace aside, starts with mode=
IsModeLine(l) == LET t == strip(l) IN t # <<>> /\ Head(t) = "mode="

ModeIdx(ls) == {i \in 1..Len(ls) : IsModeLine(ls[i])}

FirstIdx(S) == CHOOSE i \in S : \A j \in S : i <= j

\* the lines of a file without its mode= lines, in order
RECURSIVE OtherLines(_)
OtherLines(ls) ==
    IF ls = <<>> THEN <<>>
    ELSE IF IsModeLine(Head(ls)) THEN OtherLines(Tail(ls))
    ELSE <<Head(ls)>> \o OtherLines(Tail(ls))

\* ls with its first mode= line replaced by l, or with l appended if it has none
FirstReplaced(ls, l) ==
    IF ModeIdx(ls) = {} THEN Append(ls, l)
    ELSE [ls EXCEPT ![FirstIdx(ModeIdx(ls))] = l]

Done(w) == req[w].pc = "done"
Succeeded(w) == Done(w) /\ req[w].status = 200
Sole(w) == \A v \in Writers \ {w} : req[v].pc = "idle"

-----------------------------------------------------------------------------
(* C1 *)

\* C1: a successful write of mode m over a readable, non-empty file with a
\* mode= line leaves the original lines in the original order, the mode=
\* line replaced in place by mode=m and every other line unchanged.
C1_OrderPreserved ==
    \A w \in Writers :
        (Succeeded(w) /\ Sole(w) /\ req[w].read_ok
            /\ Cardinality(ModeIdx(splitlines(req[w].seen))) = 1)
        => splitlines(req[w].after)
              = FirstReplaced(splitlines(req[w].seen), <<"mode=">> \o req[w].mode)

-----------------------------------------------------------------------------
(* C2 *)

\* C2: after any successful write the file has at most one line starting
\* with mode=; only the first mode= line found is replaced, and a mode line
\* is appended only when none existed.
C2_AtMostOneModeLine ==
    \A w \in Writers :
        Succeeded(w) =>
            /\ Cardinality(ModeIdx(splitlines(req[w].after))) <= 1
            /\ req[w].read_ok =>
                  splitlines(req[w].content)
                     = FirstReplaced(splitlines(strip(req[w].seen)),
                                     <<"mode=">> \o req[w].mode)

-----------------------------------------------------------------------------
(* C3 *)

\* C3: writing statis twice in succession is idempotent: the second write
\* leaves the file the first write left, with exactly one mode=statis line
\* and the other lines those present before the first write.
C3_Idempotent ==
    \A w1, w2 \in Writers :
        (w1 # w2 /\ Succeeded(w1) /\ Succeeded(w2)
            /\ req[w1].mode = <<"statis">> /\ req[w2].mode = <<"statis">>
            /\ req[w1].seen = file0 /\ req[w2].seen = req[w1].after)
        => /\ req[w2].after = req[w1].after
           /\ Cardinality({i \in 1..Len(splitlines(req[w2].after)) :
                 splitlines(req[w2].after)[i] = <<"mode=", "statis">>}) = 1
           /\ OtherLines(splitlines(req[w2].after)) = OtherLines(splitlines(file0))

-----------------------------------------------------------------------------
(* C4 *)

\* C4: a POST whose mode, lowercased and trimmed, is neither otomatis nor
\* statis is answered 400 without any command being run, and the file is
\* left as it was.
C4_InvalidRejected ==
    /\ \A w \in Writers :
          (req[w].pc # "idle" /\ normalize(req[w].payload) \notin ModeNames)
          => /\ Done(w) /\ req[w].status = 400
             /\ req[w].ncmds = 0 /\ req[w].after = <<>>
    /\ (\A w \in Writers :
            req[w].pc # "idle" => normalize(req[w].payload) \notin ModeNames)
       => file = file0 /\ lastPersist = 0

C4_Witness ==
    \E w \in Writers :
        Done(w) /\ req[w].payload = <<"fast">> /\ req[w].status = 400 /\ file # <<>>

-----------------------------------------------------------------------------
(* C5 *)

\* C5: POST {"mode": " OTOMATIS "} is accepted; when the write command
\* succeeds the response echoes otomatis, the file holds the line
\* mode=otomatis and a GET that then reads the file reports otomatis.
C5_NormalizedStored ==
    \A w \in Writers :
        (Done(w) /\ req[w].payload = <<" ", "OTOMATIS", " ">>)
        => /\ req[w].status # 400
           /\ req[w].status = 200 =>
                 /\ req[w].echo = <<"otomatis">>
                 /\ \E i \in 1..Len(splitlines(req[w].after)) :
                       splitlines(req[w].after)[i] = <<"mode=", "otomatis">>
                 /\ (lastGet.called /\ lastGet.code = 0
                        /\ lastGet.seen = req[w].after)
                    => lastGet.mode = <<"otomatis">>

-----------------------------------------------------------------------------
(* C6 *)

\* the mode a reader of file f is to report, given the exit code of the read
ExpectedMode(f, code) ==
    LET ls == splitlines(f)
    IN IF code # 0 \/ ModeIdx(ls) = {} THEN <<"unknown">>
       ELSE LET v == strip(Tail(strip(ls[FirstIdx(ModeIdx(ls))])))
            IN IF v \in ModeNames THEN v ELSE <<"unknown">>

\* C6: GET /api/mode always answers otomatis, statis or unknown: unknown
\* when the file cannot be read, has no mode= line, or its first mode=
\* line holds another value; otherwise the value of that line.
C6_GetModeTotal ==
    lastGet.called =>
        /\ lastGet.mode \in ModeNames \cup {<<"unknown">>}
        /\ lastGet.mode = ExpectedMode(lastGet.seen, lastGet.code)

C6_Witness ==
    /\ lastGet.called /\ lastGet.code = 0
    /\ lastGet.mode = <<"statis">>
    /\ \E i \in 1..Len(splitlines(lastGet.seen)) :
          splitlines(lastGet.seen)[i] = <<"mode=", "otomatis">>

-----------------------------------------------------------------------------
(* C8 *)

\* C8: a successful write of otomatis over a readable, non-empty file with
\* no mode= line leaves the original lines, unchanged and in order,
\* followed by mode=otomatis as the last line.
C8_Appended ==
    \A w \in Writers :
        (Succeeded(w) /\ Sole(w) /\ req[w].read_ok
            /\ req[w].mode = <<"otomatis">>
            /\ ModeIdx(splitlines(req[w].seen)) = {})
        => splitlines(req[w].after)
              = Append(splitlines(req[w].seen), <<"mode=", "otomatis">>)

-----------------------------------------------------------------------------
(* C10 *)

\* C10: once two overlapping writes over a readable file have both
\* succeeded, the mode line of the file holds the mode of the request whose
\* persist step ran last, and the other lines are those of the original
\* file.
C10_LastPersistWins ==
    (\A w \in Writers : Succeeded(w) /\ req[w].read_ok)
    => /\ lastPersist \in Writers
       /\ LET ls == splitlines(file)
          IN /\ ModeIdx(ls) # {}
             /\ strip(ls[FirstIdx(ModeIdx(ls))])
                   = <<"mode=">> \o req[lastPersist].mode
             /\ OtherLines(ls) = OtherLines(splitlines(file0))

-----------------------------------------------------------------------------
(* Specification of the device endpoint *)

Props == {PropOf[f] : f \in PropFields}
EnvNames == {EnvOf[f] : f \in PropFields}

MemInfos ==
    {None,
     Some(<< <<"MemFree:", "1024", "kB">> >>),
     Some(<< <<"MemFree:", "1024", "kB">>, <<"MemTotal:", "16384", "kB">> >>),
     Some(<< <<"MemTotal:">> >>)}

InitDevice ==
    /\ file = <<>> /\ file0 = <<>>
    /\ req = [w \in Writers |-> IdleReq]
    /\ lastPersist = 0
    /\ lastGet = NoGet
    /\ rc = NoCall
    /\ \E su \in BOOLEAN, has \in BOOLEAN, props \in SUBSET Props,
          envs \in SUBSET EnvNames, uname \in BOOLEAN,
          free \in {"prints", "silent", "fails"}, meminfo \in MemInfos :
          /\ ~has => props = {}
          /\ dev = [NoDev EXCEPT !.su = su, !.has_getprop = has, !.props = props,
                                 !.envs = envs, !.uname = uname, !.free = free,
                                 !.meminfo = meminfo]

\* GET /api/device
device_info ==
    /\ ~dev.called
    /\ dev' = [dev EXCEPT !.called = TRUE, !.response = device_info_response(dev)]
    /\ UNCHANGED <<file, file0, req, lastPersist, lastGet, rc>>

NextDevice == device_info

SpecDevice == InitDevice /\ [][NextDevice]_vars

-----------------------------------------------------------------------------
(* C7 *)

MemTotalIdx(ls) == {i \in 1..Len(ls) : ls[i] # <<>> /\ ls[i][1] = "MemTotal:"}

NoGetpropNoEnv == dev.called /\ ~dev.has_getprop /\ dev.envs = {}

\* C7: with no getprop binary and none of the device environment variables
\* set, each of the seven fields is "Tidak tersedia" and the answer is 200.
C7_AllPlaceholders ==
    NoGetpropNoEnv =>
        /\ dev.response.status = 200
        /\ \A f \in Fields : dev.response.info[f] = <<"Tidak tersedia">>

\* C7, amended: with no getprop binary and none of the device environment
\* variables set, model, board, brand, android and cpu are "Tidak
\* tersedia", kernel is so exactly when uname -r gives no output, ram is so
\* exactly when the free pipeline prints nothing and the first MemTotal:
\* line of /proc/meminfo, if any can be read, has no second word, and the
\* answer is 200.
C7_PropFieldsPlaceholders ==
    NoGetpropNoEnv =>
        /\ dev.response.status = 200
        /\ \A f \in PropFields : dev.response.info[f] = <<"Tidak tersedia">>
        /\ dev.response.info["kernel"] = <<"Tidak tersedia">> <=> ~dev.uname
        /\ dev.response.info["ram"] = <<"Tidak tersedia">>
              <=> /\ dev.free # "prints"
                  /\ \/ ~dev.meminfo.some
                     \/ MemTotalIdx(dev.meminfo.val) = {}
                     \/ Len(dev.meminfo.val[FirstIdx(MemTotalIdx(dev.meminfo.val))]) < 2

C7_Witness ==
    /\ NoGetpropNoEnv
    /\ dev.response.info["model"] = <<"Tidak tersedia">>
    /\ dev.response.info["kernel"] # <<"Tidak tersedia">>
    /\ dev.response.info["ram"] = <<"16384", " kB">>

-----------------------------------------------------------------------------
(* C9 *)

ExitedZero(a) == a.kind = "completed" /\ a.returncode = 0

\* t is s without its leading and trailing whitespace
IsTrimOf(t, s) ==
    \E i \in 1..Len(s) + 1, j \in 0..Len(s) :
        /\ t = SubSeq(s, i, j)
        /\ \A k \in 1..Len(s) : (k < i \/ k > j) => s[k] \in {" ", "\n"}
        /\ t # <<>> => t[1] \notin {" ", "\n"} /\ t[Len(t)] \notin {" ", "\n"}

\* C9: run_cmd tries su (only with use_su) and then sh, at most two
\* attempts, a later one only when the earlier did not exit 0; it returns
\* the trimmed output of the first attempt that exits 0, and
\* ("", "Command failed", 1) when none does; so the code is 0 or 1 and
\* stdout is empty whenever it is 1.
C9_RunCmdOrder ==
    rc.called =>
        LET r == rc.result
            order == IF rc.use_su THEN <<"su", "sh">> ELSE <<"sh">>
            zero == {i \in 1..Len(order) : ExitedZero(rc.oc[order[i]])}
        IN /\ Len(r.tried) \in 1..2
           /\ r.tried = SubSeq(order, 1, Len(r.tried))
           /\ \A i \in 2..Len(r.tried) : ~ExitedZero(rc.oc[r.tried[i - 1]])
           /\ IF zero # {}
              THEN /\ r.tried = SubSeq(order, 1, FirstIdx(zero))
                   /\ r.by = order[FirstIdx(zero)]
                   /\ r.code = 0
                   /\ IsTrimOf(r.stdout, rc.oc[r.by].stdout)
              ELSE /\ r.tried = order
                   /\ r.stdout = <<>>
                   /\ r.stderr = [some |-> TRUE, val |-> <<"Command failed">>]
                   /\ r.code = 1
           /\ r.code \in {0, 1}
           /\ r.code = 1 => r.stdout = <<>>

C9_Witness ==
    /\ rc.called /\ rc.use_su
    /\ rc.oc["su"].kind = "completed" /\ rc.oc["su"].returncode # 0
    /\ rc.result.tried = <<"su", "sh">>
    /\ rc.result.code = 0
    /\ rc.result.stdout # <<>>
    /\ rc.result.stdout # rc.oc["sh"].stdout

====
